---- MODULE Spec2Model ----
(***************************************************************************)
(* A model of aioredis/pool.py: RedisPool, create_pool and the scoped      *)
(* lease.  The pool is driven by cooperatively scheduled coroutines; one   *)
(* action of the model is one run of a coroutine from the point where it   *)
(* is resumed to the point where it next suspends (or returns).            *)
(*                                                                         *)
(* self._cond is an asyncio.Condition: a lock with a FIFO queue of         *)
(* coroutines waiting to take it, and a FIFO queue of coroutines suspended *)
(* in wait().  Releasing the lock wakes the first queued coroutine, and    *)
(* nobody else can take the lock before it runs, so the lock is handed to  *)
(* it.  notify() resolves the future of the first waiter that has not      *)
(* been notified yet; the waiter leaves the queue when it next runs.       *)
(***************************************************************************)
EXTENDS Integers, Sequences, FiniteSets, TLC

\* ---------------------------------------------------------------- bounds
NTasks == 3
NCallers == 2
MaxConns == 3
MaxWakeups == 2
MaxPoolSize == 2
NumDbs == 2

\* the caller tasks; Callers are those that make every kind of call
Tasks == 1..NTasks
Callers == 1..NCallers
Conns == 1..MaxConns
DBs == 0..(NumDbs - 1)

\* values of lockOwner that are not caller tasks
NoOwner == 0
WakeupTask == -1
\* "no connection"
NoConn == 0

VARIABLES
    minsize,     \* self._minsize
    maxsize,     \* self._pool.maxlen
    db,          \* self._db
    pool,        \* self._pool, the free list (a bounded deque)
    used,        \* self._used, the leased set
    acquiring,   \* self._acquiring, creations in flight
    nCreated,    \* connections the factory has produced so far
    closed,      \* connections with conn.closed
    intx,        \* connections with conn.in_transaction
    cdb,         \* conn.db of every connection
    lockOwner,   \* holder of the lock of self._cond
    lockQ,       \* coroutines queued for the lock, FIFO
    condQ,       \* coroutines suspended in self._cond.wait(), FIFO
    notified,    \* members of condQ whose future notify() has resolved
    wakeups,     \* _wakeup tasks scheduled by release that have not run yet
    ctor,        \* position of create_pool
    pc,          \* position of every caller task
    held,        \* the connection each caller task holds a lease on
    report,      \* what the step just taken reported: the exception it
                 \* raised to its caller, or the warning it logged
    arg,         \* select: the db argument of the call in progress
    seli,        \* select: loop index i of the call that holds the lock
    seln,        \* select: range(self.freesize), evaluated once
    waiters,     \* clear: the connections whose close the call waits for
    cm           \* the _ConnectionContextManager of every caller task

poolVars == <<pool, used, acquiring>>
connVars == <<nCreated, closed, intx, cdb>>
lockVars == <<lockOwner, lockQ>>
condVars == <<condQ, notified>>
cfgVars  == <<minsize, maxsize>>
selVars  == <<arg, seli, seln, waiters>>
vars == <<minsize, maxsize, db, pool, used, acquiring, nCreated, closed, intx,
          cdb, lockOwner, lockQ, condQ, notified, wakeups, ctor, pc, held,
          report, arg, seli, seln, waiters, cm>>

\* ------------------------------------------------------------ helpers
Range(s) == {s[i] : i \in 1..Len(s)}

\* RedisPool.freesize
freesize(p) == Len(p)

\* RedisPool.size
size(p, u, a) == freesize(p) + Cardinality(u) + a

\* collections.deque(maxlen=maxsize).append: a full deque drops its oldest
\* entry, a deque of maxlen 0 drops the appended one.
DequeAppend(p, c) ==
    IF maxsize = 0 THEN p
    ELSE IF Len(p) >= maxsize THEN Append(Tail(p), c)
    ELSE Append(p, c)

\* with (yield from self._cond): taken at once only when the lock is free
\* and nobody is queued for it.
LockFree == lockOwner = NoOwner /\ lockQ = <<>>

\* Lock.release: hand the lock to the first queued coroutine.
NextOwner == IF lockQ = <<>> THEN NoOwner ELSE Head(lockQ)
RestQ == IF lockQ = <<>> THEN <<>> ELSE Tail(lockQ)

\* Condition.notify(): the first waiter whose future is not resolved yet.
Unnotified == {i \in 1..Len(condQ) : condQ[i] \notin notified}
\* (variant: a notify that resolves nobody's future)
NotifyNobody == notified

Notify ==
    IF Unnotified = {} THEN notified
    ELSE LET i == CHOOSE k \in Unnotified : \A j \in Unnotified : k <= j
         IN notified \cup {condQ[i]}

RemoveFrom(s, x) == SelectSeq(s, LAMBDA y : y # x)

\* _ConnectionContextManager: its two slots (_pool is the one pool or None)
\* and where its with statement stands: "none" (no handle), "iter" (inside
\* pool.__iter__), "open" (in the body), "exited" / "exited_err" (left the
\* body normally / by an exception).
NoHandle == [state |-> "none", pool |-> FALSE, conn |-> NoConn]
Handle(c) == [state |-> "open", pool |-> TRUE, conn |-> c]

\* ------------------------------------------------------- initial state
\* The configurations the pool is built with: (minsize, maxsize).
AllConfigs == {<<m, M>> : m \in 0..MaxPoolSize, M \in 0..MaxPoolSize}
\* those create_pool's defaults stand for: minsize <= maxsize
Configs == {c \in AllConfigs : c[1] <= c[2]}

\* RedisPool.__init__: an empty deque, an empty leased set, nothing in
\* flight; create_pool has not started its fill yet.
InitWith(cfgs) ==
    /\ \E c \in cfgs : minsize = c[1] /\ maxsize = c[2]
    /\ db = 0
    /\ pool = <<>>
    /\ used = {}
    /\ acquiring = 0
    /\ nCreated = 0
    /\ closed = {}
    /\ intx = {}
    /\ cdb = [c \in Conns |-> 0]
    /\ lockOwner = NoOwner
    /\ lockQ = <<>>
    /\ condQ = <<>>
    /\ notified = {}
    /\ wakeups = 0
    /\ ctor = "init"
    /\ pc = [t \in Tasks |-> "idle"]
    /\ held = [t \in Tasks |-> NoConn]
    /\ report = "none"
    /\ arg = [t \in Tasks |-> 0]
    /\ seli = 0
    /\ seln = 0
    /\ waiters = {}
    /\ cm = [t \in Tasks |-> NoHandle]

Init == InitWith(Configs)

\* ---------------------------------------------------------- _fill_free
\* What _fill_free does next, given the free list p and the counter a:
\* "create_min" (the while loop reserves a slot and creates), "create_top"
\* (the top-up-by-one reserves a slot and creates) or "return".
\* (variants: the top-up test off by one; the fill to minsize left out)
FillNextLoose(p, a, override_min) ==
    IF size(p, used, a) < minsize THEN "create_min"
    ELSE IF freesize(p) > 0 THEN "return"
    ELSE IF override_min /\ size(p, used, a) <= maxsize THEN "create_top"
    ELSE "return"

FillNextNoMin(p, a, override_min) ==
    IF freesize(p) > 0 THEN "return"
    ELSE IF override_min /\ size(p, used, a) < maxsize THEN "create_top"
    ELSE "return"

FillNext(p, a, override_min) ==
    IF size(p, used, a) < minsize THEN "create_min"
    ELSE IF freesize(p) > 0 THEN "return"
    ELSE IF override_min /\ size(p, used, a) < maxsize THEN "create_top"
    ELSE "return"

\* _create_new_connection resolving: the factory's next connection, open,
\* outside a transaction, on the pool's db.
NewConn == nCreated + 1
Created ==
    /\ nCreated < MaxConns
    /\ nCreated' = NewConn
    /\ cdb' = [cdb EXCEPT ![NewConn] = db]
    /\ UNCHANGED <<closed, intx>>

\* ---------------------------------------------------------- create_pool
\* create_pool: pool._fill_free(override_min=False), run before the pool is
\* handed to any caller and without the lock.
CtorFill(p, a) ==
    IF FillNext(p, a, FALSE) = "create_min"
    THEN /\ acquiring' = a + 1
         /\ ctor' = "creating"
         /\ pool' = p
    ELSE /\ acquiring' = a
         /\ ctor' = "done"
         /\ pool' = p

CtorStart ==
    /\ ctor = "init"
    /\ CtorFill(pool, acquiring)
    /\ UNCHANGED <<cfgVars, cm, db, used, connVars, lockVars, condVars, wakeups,
                   pc, held, selVars>>
    /\ report' = "none"

CtorCreated ==
    /\ ctor = "creating"
    /\ Created
    /\ CtorFill(DequeAppend(pool, NewConn), acquiring - 1)
    /\ UNCHANGED <<cfgVars, cm, db, used, lockVars, condVars, wakeups, pc, held,
                   selVars>>
    /\ report' = "none"

\* the factory fails: the finally clause gives the slot back and create_pool
\* raises, so no pool is returned.
CtorCreateFail ==
    /\ ctor = "creating"
    /\ acquiring' = acquiring - 1
    /\ ctor' = "failed"
    /\ UNCHANGED <<cfgVars, cm, db, pool, used, connVars, lockVars, condVars,
                   wakeups, pc, held, selVars>>
    /\ report' = "none"

\* -------------------------------------------------------------- acquire
\* Every operator below runs as task t holding the lock; p and a are the
\* free list and the counter at that point, q the condition's wait queue.

\* leaving the with block: the lock goes to the next queued coroutine
Unlock ==
    /\ lockOwner' = NextOwner
    /\ lockQ' = RestQ

\* suspending inside the with block: t keeps the lock
KeepLock(t) ==
    /\ lockOwner' = t
    /\ lockQ' = lockQ

\* queueing for the lock
Enqueue(who) ==
    /\ lockOwner' = lockOwner
    /\ lockQ' = Append(lockQ, who)

\* lines 115-122: pop the front of the free list and lease it, or wait.
\* (variant: the front is read but left in the free list)
AcquireTakeNoPop(t, p, a, q) ==
    IF freesize(p) > 0
    THEN LET conn == Head(p) IN
         /\ pool' = p
         /\ acquiring' = a
         /\ condQ' = q
         /\ Unlock
         /\ used' = used \cup {conn}
         /\ held' = [held EXCEPT ![t] = conn]
         /\ report' = "none"
         /\ pc' = [pc EXCEPT ![t] = "idle"]
    ELSE /\ pool' = p
         /\ acquiring' = a
         /\ Unlock
         /\ condQ' = Append(q, t)
         /\ pc' = [pc EXCEPT ![t] = "acq_wait"]
         /\ UNCHANGED <<used, held>>
         /\ report' = "none"

AcquireTake(t, p, a, q) ==
    IF freesize(p) > 0
    THEN LET conn == Head(p) IN
         /\ pool' = Tail(p)
         /\ acquiring' = a
         /\ condQ' = q
         /\ Unlock
         /\ IF conn \in closed \/ conn \in used
            THEN \* one of the two assertions fails
                 /\ report' = "AssertionError"
                 /\ UNCHANGED <<used, held>>
            ELSE /\ used' = used \cup {conn}
                 /\ held' = [held EXCEPT ![t] = conn]
                 /\ report' = "none"
         /\ pc' = [pc EXCEPT ![t] = "idle"]
    ELSE \* self._cond.wait(): give the lock up and join the wait queue
         /\ pool' = p
         /\ acquiring' = a
         /\ Unlock
         /\ condQ' = Append(q, t)
         /\ pc' = [pc EXCEPT ![t] = "acq_wait"]
         /\ UNCHANGED <<used, held>>
         /\ report' = "none"

\* the top of the while True loop: _fill_free(override_min=True), then the
\* take-or-wait step unless _fill_free suspends in a creation.
AcquireLoop(t, p, a, q) ==
    LET nxt == FillNext(p, a, TRUE) IN
    IF nxt = "return"
    THEN AcquireTake(t, p, a, q)
    ELSE /\ pool' = p
         /\ acquiring' = a + 1
         /\ condQ' = q
         /\ KeepLock(t)
         /\ pc' = [pc EXCEPT ![t] = IF nxt = "create_min" THEN "acq_min"
                                                          ELSE "acq_top"]
         /\ UNCHANGED <<used, held>>
         /\ report' = "none"

\* pool.__iter__ (lines 190-193): what the end of the acquire it waits in
\* does to the handle of t: a _ConnectionContextManager on the connection
\* acquire returned, none when acquire raised.
IterReturn(t) ==
    IF held'[t] # NoConn THEN Handle(held'[t]) ELSE NoHandle

IterStep(t) ==
    cm' = IF cm[t].state = "iter" /\ pc'[t] = "idle"
          THEN [cm EXCEPT ![t] = IterReturn(t)]
          ELSE cm

\* a caller with no lease calls acquire()
AcquireCall(t) ==
    /\ ctor = "done"
    /\ pc[t] = "idle"
    /\ held[t] = NoConn
    /\ IF LockFree
       THEN AcquireLoop(t, pool, acquiring, condQ)
       ELSE /\ Enqueue(t)
            /\ pc' = [pc EXCEPT ![t] = "acq_lock"]
            /\ UNCHANGED <<poolVars, condQ, held>>
            /\ report' = "none"
    /\ UNCHANGED <<cfgVars, cm, db, connVars, notified, wakeups, ctor, selVars>>

\* the lock is handed to a task queued in acquire (at entry, or coming back
\* from wait)
AcquireLocked(t) ==
    /\ pc[t] \in {"acq_lock", "acq_relock"}
    /\ lockOwner = t
    /\ AcquireLoop(t, pool, acquiring, condQ)
    /\ UNCHANGED <<cfgVars, db, connVars, notified, wakeups, ctor, selVars>>
    /\ IterStep(t)

\* the creation inside _fill_free resolves: append, give the slot back, and
\* go on (the while loop re-tests; the top-up returns to acquire)
AcquireCreated(t) ==
    /\ pc[t] \in {"acq_min", "acq_top"}
    /\ Created
    /\ IF pc[t] = "acq_min"
       THEN AcquireLoop(t, DequeAppend(pool, NewConn), acquiring - 1, condQ)
       ELSE AcquireTake(t, DequeAppend(pool, NewConn), acquiring - 1, condQ)
    /\ UNCHANGED <<cfgVars, db, notified, wakeups, ctor, selVars>>
    /\ IterStep(t)

\* the creation fails: the finally clause gives the slot back, the with
\* block releases the lock and the error reaches the caller
\* (variant: no finally clause, the slot stays reserved)
AcquireCreateFailKeepSlot(t) ==
    /\ pc[t] \in {"acq_min", "acq_top"}
    /\ acquiring' = acquiring
    /\ Unlock
    /\ report' = "CreationError"
    /\ pc' = [pc EXCEPT ![t] = "idle"]
    /\ UNCHANGED <<cfgVars, db, pool, used, connVars, condVars, wakeups,
                   ctor, held, selVars>>
    /\ IterStep(t)

AcquireCreateFail(t) ==
    /\ pc[t] \in {"acq_min", "acq_top"}
    /\ acquiring' = acquiring - 1
    /\ Unlock
    /\ report' = "CreationError"
    /\ pc' = [pc EXCEPT ![t] = "idle"]
    /\ UNCHANGED <<cfgVars, db, pool, used, connVars, condVars, wakeups,
                   ctor, held, selVars>>
    /\ IterStep(t)

\* a caller with no lease enters "with (yield from pool) as conn": __iter__
\* calls acquire and wraps the connection it returns
IterCall(t) ==
    /\ ctor = "done"
    /\ pc[t] = "idle"
    /\ held[t] = NoConn
    /\ cm[t].state # "open"
    /\ IF LockFree
       THEN AcquireLoop(t, pool, acquiring, condQ)
       ELSE /\ Enqueue(t)
            /\ pc' = [pc EXCEPT ![t] = "acq_lock"]
            /\ UNCHANGED <<poolVars, condQ, held>>
            /\ report' = "none"
    /\ cm' = [cm EXCEPT ![t] = IF pc'[t] = "idle" THEN IterReturn(t)
                               ELSE [NoHandle EXCEPT !.state = "iter"]]
    /\ UNCHANGED <<cfgVars, db, connVars, notified, wakeups, ctor, selVars>>

\* a notified waiter runs: it leaves the wait queue and takes the lock
\* again (Condition.wait ends with self.acquire())
CondWake(t) ==
    /\ pc[t] = "acq_wait"
    /\ t \in notified
    /\ notified' = notified \ {t}
    /\ IF LockFree
       THEN AcquireLoop(t, pool, acquiring, RemoveFrom(condQ, t))
       ELSE /\ Enqueue(t)
            /\ condQ' = RemoveFrom(condQ, t)
            /\ pc' = [pc EXCEPT ![t] = "acq_relock"]
            /\ UNCHANGED <<poolVars, held>>
            /\ report' = "none"
    /\ UNCHANGED <<cfgVars, db, connVars, wakeups, ctor, selVars>>
    /\ IterStep(t)

\* -------------------------------------------------------------- release
\* _wakeup tasks that exist: scheduled, queued for the lock or holding it
Outstanding ==
    wakeups + Cardinality({i \in 1..Len(lockQ) : lockQ[i] = WakeupTask})
            + (IF lockOwner = WakeupTask THEN 1 ELSE 0)

\* conn.close() on every connection of S.  A closed connection has no
\* transaction and no selected db any more; the pool reads neither of a
\* closed connection.
CloseConns(S) ==
    /\ closed' = closed \cup S
    /\ intx' = intx \ S
    /\ cdb' = [c \in Conns |-> IF c \in S THEN 0 ELSE cdb[c]]

\* lines 133-145: what release does with the connection it took out of the
\* leased set: "drop" (already closed), "close" or "append".
\* (variants: conn.closed is not looked at; conn.db is not looked at;
\* conn.in_transaction is not looked at)
RecycleIgnoreClosed(c) ==
    IF c \in intx THEN "close"
    ELSE IF cdb[c] = db
    THEN IF maxsize # 0 /\ freesize(pool) < maxsize THEN "append" ELSE "close"
    ELSE "close"

RecycleIgnoreDb(c) ==
    IF c \in closed THEN "drop"
    ELSE IF c \in intx THEN "close"
    ELSE IF maxsize # 0 /\ freesize(pool) < maxsize THEN "append" ELSE "close"

RecycleIgnoreTx(c) ==
    IF c \in closed THEN "drop"
    ELSE IF cdb[c] = db
    THEN IF maxsize # 0 /\ freesize(pool) < maxsize THEN "append" ELSE "close"
    ELSE "close"

Recycle(c) ==
    IF c \in closed THEN "drop"
    ELSE IF c \in intx THEN "close"
    ELSE IF cdb[c] = db
    THEN IF maxsize # 0 /\ freesize(pool) < maxsize THEN "append" ELSE "close"
    ELSE "close"

\* lines 132-147, once the assertion has passed
ReleaseTail(t, c, after) ==
    /\ used' = used \ {c}
    /\ IF Recycle(c) = "append"
       THEN pool' = DequeAppend(pool, c) /\ UNCHANGED <<closed, intx, cdb>>
       ELSE IF Recycle(c) = "close"
       THEN pool' = pool /\ CloseConns({c})
       ELSE UNCHANGED <<pool, closed, intx, cdb>>
    \* asyncio.async(self._wakeup())
    /\ wakeups' = wakeups + 1
    /\ held' = [held EXCEPT ![t] = IF held[t] = c THEN NoConn ELSE held[t]]
    /\ pc' = [pc EXCEPT ![t] = after]
    \* logger.warning("Connection %r in transaction, closing it.", conn)
    /\ report' = IF c \notin closed /\ c \in intx THEN "warning" ELSE "none"

\* release(conn) by task t; release is a plain function: it runs to its end
\* without suspending and without the lock.  after is where the caller
\* goes next.
\* (variant: membership in the leased set is not asserted)
ReleaseNoAssert(t, c, after) == ReleaseTail(t, c, after)

Release(t, c, after) ==
    IF c \notin used
    THEN \* assert conn in self._used
         /\ report' = "AssertionError"
         /\ UNCHANGED <<pool, used, closed, intx, cdb, wakeups, held, pc>>
    ELSE ReleaseTail(t, c, after)

ReleaseFrame ==
    UNCHANGED <<cfgVars, cm, db, acquiring, nCreated, lockVars, condVars, ctor,
                selVars>>

\* the holder of a lease releases it and goes on
ReleaseCall(t) ==
    /\ pc[t] = "idle"
    /\ held[t] # NoConn
    /\ Outstanding < MaxWakeups
    /\ Release(t, held[t], "idle")
    /\ ReleaseFrame

\* the holder of a lease releases it and makes no further call
ReleaseLast(t) ==
    /\ pc[t] = "idle"
    /\ held[t] # NoConn
    /\ Outstanding < MaxWakeups
    /\ Release(t, held[t], "done")
    /\ ReleaseFrame

\* a caller releases a connection nobody holds a lease on: one it released
\* before, one the pool closed, or one of another pool
ReleaseStale(t, c) ==
    /\ ctor = "done"
    /\ pc[t] = "idle"
    /\ \A u \in Tasks : held[u] # c
    /\ Outstanding < MaxWakeups
    /\ Release(t, c, "idle")
    /\ ReleaseFrame

\* _ConnectionContextManager.__exit__ (lines 207-212), reached when the
\* body of the with statement ends normally or by an exception (exc); the
\* arguments are not looked at.  release runs in a try block whose finally
\* clause clears both slots.
\* (variant: the slots are cleared after release, outside a finally clause)
ScopeExitNoFinally(t, exc) ==
    /\ pc[t] = "idle"
    /\ cm[t].state = "open"
    /\ Outstanding < MaxWakeups
    /\ Release(t, cm[t].conn, "idle")
    /\ cm' = [cm EXCEPT ![t] =
                IF cm[t].conn \in used
                THEN [state |-> IF exc THEN "exited_err" ELSE "exited",
                      pool |-> FALSE, conn |-> NoConn]
                ELSE [cm[t] EXCEPT !.state = "exited_err"]]
    /\ UNCHANGED <<cfgVars, db, acquiring, nCreated, lockVars, condVars,
                   ctor, selVars>>

ScopeExit(t, exc) ==
    /\ pc[t] = "idle"
    /\ cm[t].state = "open"
    /\ Outstanding < MaxWakeups
    /\ Release(t, cm[t].conn, "idle")
    /\ cm' = [cm EXCEPT ![t] =
                [state |-> IF exc \/ cm[t].conn \notin used
                           THEN "exited_err" ELSE "exited",
                 pool |-> FALSE, conn |-> NoConn]]
    /\ UNCHANGED <<cfgVars, db, acquiring, nCreated, lockVars, condVars,
                   ctor, selVars>>

\* -------------------------------------------------------------- _wakeup
\* a scheduled _wakeup task runs: it notifies at once when the lock is
\* free (its with block does not suspend), and queues for the lock otherwise
WakeupRun ==
    /\ wakeups > 0
    /\ wakeups' = wakeups - 1
    /\ IF LockFree
       THEN notified' = Notify /\ UNCHANGED lockVars
       ELSE Enqueue(WakeupTask) /\ UNCHANGED notified
    /\ UNCHANGED <<cfgVars, cm, db, poolVars, connVars, condQ, ctor, pc, held,
                   selVars>>
    /\ report' = "none"

\* the lock is handed to a queued _wakeup task
WakeupLocked ==
    /\ lockOwner = WakeupTask
    /\ notified' = Notify
    /\ Unlock
    /\ UNCHANGED <<cfgVars, cm, db, poolVars, connVars, condQ, wakeups, ctor,
                   pc, held, selVars>>
    /\ report' = "none"

\* --------------------------------------------------------------- select
\* the body of select(d) under the lock: range(self.freesize) is computed
\* once; with no free connection the else clause runs at once
SelectBody(t, d) ==
    IF freesize(pool) = 0
    THEN /\ db' = d
         /\ Unlock
         /\ arg' = [arg EXCEPT ![t] = 0]
         /\ report' = "none"
         /\ pc' = [pc EXCEPT ![t] = "idle"]
         /\ UNCHANGED <<seli, seln, cdb>>
    ELSE /\ KeepLock(t)
         /\ seli' = 0
         /\ seln' = freesize(pool)
         /\ arg' = [arg EXCEPT ![t] = d]
         /\ pc' = [pc EXCEPT ![t] = "sel_conn"]
         /\ UNCHANGED <<db, cdb>>
         /\ report' = "none"

SelectCall(t, d) ==
    /\ ctor = "done"
    /\ pc[t] = "idle"
    /\ IF LockFree
       THEN SelectBody(t, d)
       ELSE /\ Enqueue(t)
            /\ arg' = [arg EXCEPT ![t] = d]
            /\ pc' = [pc EXCEPT ![t] = "sel_lock"]
            /\ UNCHANGED <<db, seli, seln, cdb>>
            /\ report' = "none"
    /\ UNCHANGED <<cfgVars, cm, poolVars, nCreated, closed, intx, condVars,
                   wakeups, ctor, held, waiters>>

SelectLocked(t) ==
    /\ pc[t] = "sel_lock"
    /\ lockOwner = t
    /\ SelectBody(t, arg[t])
    /\ UNCHANGED <<cfgVars, cm, poolVars, nCreated, closed, intx, condVars,
                   wakeups, ctor, held, waiters>>

\* self._pool[i].select(db) resolves: that connection is on the new db;
\* after the last one the else clause sets self._db
SelectConn(t) ==
    /\ pc[t] = "sel_conn"
    /\ cdb' = [cdb EXCEPT ![pool[seli + 1]] = arg[t]]
    /\ IF seli + 1 < seln
       THEN /\ seli' = seli + 1
            /\ UNCHANGED <<db, lockVars, arg, seln, pc>>
            /\ report' = "none"
       ELSE /\ db' = arg[t]
            /\ Unlock
               /\ seli' = 0
            /\ seln' = 0
            /\ arg' = [arg EXCEPT ![t] = 0]
            /\ report' = "none"
            /\ pc' = [pc EXCEPT ![t] = "idle"]
    /\ UNCHANGED <<cfgVars, cm, poolVars, nCreated, closed, intx, condVars,
                   wakeups, ctor, held, waiters>>

\* ---------------------------------------------------------------- clear
\* the body of clear under the lock: pop and close every free connection;
\* gather of no waiter is done already and does not suspend
ClearBody(t) ==
    IF freesize(pool) = 0
    THEN /\ Unlock
         /\ report' = "none"
         /\ pc' = [pc EXCEPT ![t] = "idle"]
         /\ UNCHANGED <<pool, closed, intx, cdb, waiters>>
    ELSE /\ pool' = <<>>
         /\ CloseConns(Range(pool))
         /\ waiters' = Range(pool)
         /\ KeepLock(t)
         /\ pc' = [pc EXCEPT ![t] = "clr_gather"]
         /\ report' = "none"

ClearCall(t) ==
    /\ ctor = "done"
    /\ pc[t] = "idle"
    /\ IF LockFree
       THEN ClearBody(t)
       ELSE /\ Enqueue(t)
            /\ pc' = [pc EXCEPT ![t] = "clr_lock"]
            /\ UNCHANGED <<pool, closed, intx, cdb, waiters>>
            /\ report' = "none"
    /\ UNCHANGED <<cfgVars, cm, db, used, acquiring, nCreated,
                   condVars, wakeups, ctor, held, arg, seli, seln>>

ClearLocked(t) ==
    /\ pc[t] = "clr_lock"
    /\ lockOwner = t
    /\ ClearBody(t)
    /\ UNCHANGED <<cfgVars, cm, db, used, acquiring, nCreated,
                   condVars, wakeups, ctor, held, arg, seli, seln>>

\* asyncio.gather(*waiters) resolves: every close is complete
ClearDone(t) ==
    /\ pc[t] = "clr_gather"
    /\ Unlock
    /\ waiters' = {}
    /\ report' = "none"
    /\ pc' = [pc EXCEPT ![t] = "idle"]
    /\ UNCHANGED <<cfgVars, cm, db, poolVars, connVars, condVars, wakeups, ctor,
                   held, arg, seli, seln>>

\* ------------------------------------------------ the holder of a lease
\* What a caller does with the connection it holds: the pool reads
\* conn.closed, conn.in_transaction and conn.db when the lease comes back.
HolderFrame ==
    /\ UNCHANGED <<cfgVars, cm, db, poolVars, nCreated, lockVars, condVars,
                   wakeups, ctor, pc, held, selVars>>
    /\ report' = "none"

HolderClose(t) ==
    /\ pc[t] = "idle"
    /\ held[t] # NoConn
    /\ held[t] \notin closed
    /\ CloseConns({held[t]})
    /\ HolderFrame

\* MULTI, or EXEC / DISCARD
HolderTx(t) ==
    /\ pc[t] = "idle"
    /\ held[t] # NoConn
    /\ held[t] \notin closed
    /\ intx' = IF held[t] \in intx THEN intx \ {held[t]}
                                   ELSE intx \cup {held[t]}
    /\ UNCHANGED <<closed, cdb>>
    /\ HolderFrame

\* conn.select(d) on the leased connection
HolderSelect(t, d) ==
    /\ pc[t] = "idle"
    /\ held[t] # NoConn
    /\ held[t] \notin closed
    /\ cdb[held[t]] # d
    /\ cdb' = [cdb EXCEPT ![held[t]] = d]
    /\ UNCHANGED <<closed, intx>>
    /\ HolderFrame

\* ------------------------------------------------------- specification
Next ==
    \/ CtorStart
    \/ CtorCreated
    \/ CtorCreateFail
    \/ \E t \in Callers : AcquireCall(t)
    \/ \E t \in Callers : AcquireLocked(t)
    \/ \E t \in Callers : AcquireCreated(t)
    \/ \E t \in Callers : AcquireCreateFail(t)
    \/ \E t \in Callers : CondWake(t)
    \/ \E t \in Callers : ReleaseCall(t)
    \/ \E t \in Callers, c \in Conns : ReleaseStale(t, c)
    \/ WakeupRun
    \/ WakeupLocked
    \/ \E t \in Callers, d \in DBs : SelectCall(t, d)
    \/ \E t \in Callers : SelectLocked(t)
    \/ \E t \in Callers : SelectConn(t)
    \/ \E t \in Callers : ClearCall(t)
    \/ \E t \in Callers : ClearLocked(t)
    \/ \E t \in Callers : ClearDone(t)
    \/ \E t \in Callers : HolderClose(t)
    \/ \E t \in Callers : HolderTx(t)
    \/ \E t \in Callers, d \in DBs : HolderSelect(t, d)

Spec == Init /\ [][Next]_vars

\* Callers that only acquire, use and release connections (no select, no
\* clear, no misuse).
NextLease ==
    \/ CtorStart
    \/ CtorCreated
    \/ CtorCreateFail
    \/ \E t \in Tasks : AcquireCall(t)
    \/ \E t \in Tasks : AcquireLocked(t)
    \/ \E t \in Tasks : AcquireCreated(t)
    \/ \E t \in Tasks : AcquireCreateFail(t)
    \/ \E t \in Tasks : CondWake(t)
    \/ \E t \in Tasks : ReleaseCall(t)
    \/ WakeupRun
    \/ WakeupLocked
    \/ \E t \in Tasks : HolderClose(t)
    \/ \E t \in Tasks : HolderTx(t)
    \/ \E t \in Tasks, d \in DBs : HolderSelect(t, d)

SpecLease == Init /\ [][NextLease]_vars

\* Callers that acquire and release again and again, with a factory that
\* does not fail and connections that stay fit for reuse.  The event loop
\* runs every coroutine that is ready (weak fairness of every resumption),
\* and every lease holder releases in the end (the cap on the _wakeup tasks
\* may disable a release for a while, hence strong fairness).
ConfigsWait == {c \in Configs : c[2] >= 1}

NextWait ==
    \/ CtorStart
    \/ CtorCreated
    \/ \E t \in Tasks : AcquireCall(t)
    \/ \E t \in Tasks : AcquireLocked(t)
    \/ \E t \in Tasks : AcquireCreated(t)
    \/ \E t \in Tasks : CondWake(t)
    \/ \E t \in Tasks : ReleaseCall(t)
    \/ WakeupRun
    \/ WakeupLocked

LoopFairness ==
    /\ WF_vars(CtorStart)
    /\ WF_vars(CtorCreated)
    /\ WF_vars(WakeupRun)
    /\ WF_vars(WakeupLocked)
    /\ \A t \in Tasks : WF_vars(AcquireLocked(t))
    /\ \A t \in Tasks : WF_vars(AcquireCreated(t))
    /\ \A t \in Tasks : WF_vars(CondWake(t))

FairSpecWait ==
    /\ InitWith(ConfigsWait)
    /\ [][NextWait]_vars
    /\ LoopFairness
    /\ \A t \in Tasks : SF_vars(ReleaseCall(t))

\* The scenario of two callers on a pool of minsize 1 and maxsize 1: each
\* calls acquire once, uses the connection and releases it.
Pair == 1..2

NextPair ==
    \/ CtorStart
    \/ CtorCreated
    \/ \E t \in Pair : AcquireCall(t)
    \/ \E t \in Pair : AcquireCreated(t)
    \/ \E t \in Pair : CondWake(t)
    \/ \E t \in Pair : ReleaseLast(t)
    \/ WakeupRun
    \/ WakeupLocked
    \/ \E t \in Pair : HolderClose(t)
    \/ \E t \in Pair : HolderTx(t)
    \/ \E t \in Pair, d \in DBs : HolderSelect(t, d)

FairSpecPair ==
    /\ InitWith({<<1, 1>>})
    /\ [][NextPair]_vars
    /\ LoopFairness
    /\ \A t \in Pair : SF_vars(ReleaseLast(t))

\* The scenario of three callers on an empty pool of minsize 0 and maxsize
\* 2: each calls acquire once and releases the connection it got.
Trio == 1..3

NextTrio ==
    \/ CtorStart
    \/ \E t \in Trio : AcquireCall(t)
    \/ \E t \in Trio : AcquireLocked(t)
    \/ \E t \in Trio : AcquireCreated(t)
    \/ \E t \in Trio : CondWake(t)
    \/ \E t \in Trio : ReleaseLast(t)
    \/ WakeupRun
    \/ WakeupLocked

FairSpecTrio ==
    /\ InitWith({<<0, 2>>})
    /\ [][NextTrio]_vars
    /\ LoopFairness
    /\ \A t \in Trio : SF_vars(ReleaseLast(t))

\* Two callers that acquire and release again and again with a factory
\* that may fail but does not fail for ever (strong fairness of the
\* successful creation), and that call acquire again after a failure.
NextRetry ==
    \/ CtorStart
    \/ CtorCreated
    \/ CtorCreateFail
    \/ \E t \in Pair : AcquireCall(t)
    \/ \E t \in Pair : AcquireLocked(t)
    \/ \E t \in Pair : AcquireCreated(t)
    \/ \E t \in Pair : AcquireCreateFail(t)
    \/ \E t \in Pair : CondWake(t)
    \/ \E t \in Pair : ReleaseCall(t)
    \/ WakeupRun
    \/ WakeupLocked

FairSpecRetry ==
    /\ InitWith(ConfigsWait)
    /\ [][NextRetry]_vars
    /\ LoopFairness
    /\ \A t \in Pair : WF_vars(AcquireCall(t))
    /\ \A t \in Pair : SF_vars(AcquireCreated(t))

\* Two callers that lease through "with (yield from pool) as conn", use
\* the connection in the body, possibly release it there themselves, and
\* leave the body normally or by an exception.
NextScope ==
    \/ CtorStart
    \/ CtorCreated
    \/ CtorCreateFail
    \/ \E t \in Callers : IterCall(t)
    \/ \E t \in Callers : AcquireLocked(t)
    \/ \E t \in Callers : AcquireCreated(t)
    \/ \E t \in Callers : AcquireCreateFail(t)
    \/ \E t \in Callers : CondWake(t)
    \/ \E t \in Callers : ReleaseCall(t)
    \/ \E t \in Callers, exc \in BOOLEAN : ScopeExit(t, exc)
    \/ WakeupRun
    \/ WakeupLocked
    \/ \E t \in Callers : HolderClose(t)
    \/ \E t \in Callers : HolderTx(t)
    \/ \E t \in Callers, d \in DBs : HolderSelect(t, d)

SpecScope == Init /\ [][NextScope]_vars

\* Pools of every configuration, minsize above maxsize and maxsize 0
\* included, with a factory that does not fail and callers that acquire and
\* release.
NextAny ==
    \/ CtorStart
    \/ CtorCreated
    \/ \E t \in Callers : AcquireCall(t)
    \/ \E t \in Callers : AcquireLocked(t)
    \/ \E t \in Callers : AcquireCreated(t)
    \/ \E t \in Callers : CondWake(t)
    \/ \E t \in Callers : ReleaseCall(t)
    \/ WakeupRun
    \/ WakeupLocked

SpecAny == InitWith(AllConfigs) /\ [][NextAny]_vars

\* Callers that acquire, use and release connections on a pool of maxsize
\* at least 1, with a factory that does not fail.
NextSound ==
    \/ CtorStart
    \/ CtorCreated
    \/ \E t \in Tasks : AcquireCall(t)
    \/ \E t \in Tasks : AcquireLocked(t)
    \/ \E t \in Tasks : AcquireCreated(t)
    \/ \E t \in Tasks : CondWake(t)
    \/ \E t \in Tasks : ReleaseCall(t)
    \/ WakeupRun
    \/ WakeupLocked
    \/ \E t \in Tasks : HolderClose(t)
    \/ \E t \in Tasks : HolderTx(t)
    \/ \E t \in Tasks, d \in DBs : HolderSelect(t, d)

SpecSound == InitWith(ConfigsWait) /\ [][NextSound]_vars

\* Three callers on a pool of maxsize at least 1 whose factory may fail:
\* each may call acquire, the holder of a lease may leave its connection in
\* a transaction, and releases once.  The event loop is fair, every
\* creation resolves one way or the other, every lease holder releases in
\* the end; nobody is bound to call acquire.
NextStrand ==
    \/ CtorStart
    \/ CtorCreated
    \/ \E t \in Tasks : AcquireCall(t)
    \/ \E t \in Tasks : AcquireLocked(t)
    \/ \E t \in Tasks : AcquireCreated(t)
    \/ \E t \in Tasks : AcquireCreateFail(t)
    \/ \E t \in Tasks : CondWake(t)
    \/ \E t \in Tasks : ReleaseLast(t)
    \/ WakeupRun
    \/ WakeupLocked
    \/ \E t \in Tasks : HolderTx(t)

FairSpecStrand ==
    /\ InitWith(ConfigsWait)
    /\ [][NextStrand]_vars
    /\ LoopFairness
    /\ \A t \in Tasks : WF_vars(AcquireCreated(t) \/ AcquireCreateFail(t))
    /\ \A t \in Tasks : SF_vars(ReleaseLast(t))

\* ------------------------------------------------------------- claims
Holders(c) == {t \in Tasks : held[t] = c}

\* a step in which acquire returns connection c to task t
AcquireReturns(t, c) ==
    /\ held[t] = NoConn
    /\ held'[t] = c
    /\ c # NoConn

\* C1: no connection is in the free list and in the leased set at once, and
\* a connection is never leased to two callers at once: every lease a
\* caller holds is in the leased set, outside the free list, and no other
\* caller holds it.
C1_MutualExclusion ==
    /\ Range(pool) \cap used = {}
    /\ \A t \in Tasks : held[t] # NoConn =>
          /\ held[t] \in used
          /\ held[t] \notin Range(pool)
          /\ Holders(held[t]) = {t}

\* both callers hold a lease while a released connection is free again
C1_Witness ==
    /\ \E t, u \in Tasks : t # u /\ held[t] # NoConn /\ held[u] # NoConn
    /\ wakeups > 0
    /\ nCreated >= 2

\* C2: with minsize <= maxsize, free + leased + pending never exceeds
\* maxsize, and the free list alone never holds more than maxsize.
C2_SizeBound ==
    minsize <= maxsize =>
        /\ size(pool, used, acquiring) <= maxsize
        /\ freesize(pool) <= maxsize

\* the pool is at its maximum with a creation in flight and a lease out
C2_Witness ==
    /\ maxsize = 2
    /\ acquiring = 1
    /\ used # {}
    /\ size(pool, used, acquiring) = maxsize

\* C3: once select(newDb) has returned, self._db is newDb until the next
\* select returns, and no acquire returns while a select holds the lock; so
\* the claim is that every connection acquire returns is on self._db.
C3_AcquiredOnPoolDb ==
    [][\A t \in Tasks, c \in Conns :
          AcquireReturns(t, c) => cdb'[c] = db']_vars

\* C4: when clear returns, the free list is empty and every connection
\* that was free when its body started is closed.
ClearReturns(t) ==
    /\ ClearCall(t) \/ ClearLocked(t) \/ ClearDone(t)
    /\ pc'[t] = "idle"

C4_ClearLeavesNoFree ==
    [][\A t \in Tasks :
          ClearReturns(t) => (pool' = <<>> /\ waiters \subseteq closed')]_vars

\* no call of acquire, release, select or clear is in progress, the
\* background work of release included
Quiescent ==
    /\ ctor = "done"
    /\ \A t \in Tasks : pc[t] \in {"idle", "done"}
    /\ Outstanding = 0

\* C5 as stated: at every quiescent point after the initial fill,
\* free + leased + pending >= minsize.
C5_QuiescentAtLeastMin ==
    (minsize <= maxsize /\ Quiescent) =>
        size(pool, used, acquiring) >= minsize

\* C5 amended: once the initial fill has succeeded, free + leased + pending
\* is at least minsize less the number of connections closed so far; so it
\* is at least minsize at every point no connection has been closed before,
\* and every release that discards a connection may lower it by one.
C5_AtLeastMinLessClosed ==
    (minsize <= maxsize /\ ctor = "done") =>
        size(pool, used, acquiring) + Cardinality(closed) >= minsize

\* a quiescent point after one closing release: the pool is one short of
\* minsize
C5_Witness ==
    /\ Quiescent
    /\ minsize = 2
    /\ Cardinality(closed) = 1
    /\ size(pool, used, acquiring) = 1

\* C6: every task suspended in acquire is served in the end, whatever the
\* other callers do, when every lease holder releases in the end and the
\* event loop is fair.
C6_WaiterServed ==
    \A t \in Tasks : (pc[t] = "acq_wait") ~> (held[t] # NoConn)

\* C7: on a pool of minsize 1 and maxsize 1 with two callers, as long as no
\* connection has been closed (the lease came back open, outside a
\* transaction and on the pool's db): one connection is created in all, at
\* most one caller holds it while the other is suspended, and a caller
\* suspended in acquire when the connection is free again gets that very
\* connection.
C7_Inv ==
    closed = {} =>
        /\ nCreated <= 1
        /\ ctor = "done" => nCreated = 1
        /\ \A t, u \in Pair :
              (t # u /\ held[t] # NoConn /\ pc[u] # "idle") =>
                  /\ held[u] = NoConn
                  /\ pc[u] \in {"acq_wait", "acq_relock", "done"}

\* C7: the invariant above at every state, and the suspended caller gets
\* the recycled connection.
C7_Recycled ==
    /\ []C7_Inv
    /\ \A u \in Pair, c \in Conns :
          (pc[u] = "acq_wait" /\ pool = <<c>> /\ closed = {})
              ~> (held[u] = c /\ nCreated = 1)

\* the first holder has released the connection, open, while the other
\* caller is suspended in acquire
C7_Witness ==
    \E t, u \in Pair :
        /\ pc[t] = "done"
        /\ pc[u] = "acq_wait"
        /\ pool = <<1>>
        /\ closed = {}

\* no caller has released yet
NoRelease == \A t \in Tasks : pc[t] # "done"

\* every acquire call of the scenario has been made and has either
\* returned or suspended on the condition
Settled == \A t \in Trio : pc[t] = "acq_wait" \/ held[t] # NoConn

\* C8: on an empty pool of minsize 0 and maxsize 2 with three callers,
\* before any release: at most two connections are created, exactly two
\* once the three calls have settled; then two callers hold distinct
\* connections and the third is suspended and has not been notified; and
\* once a release has occurred a suspended caller gets a connection.
C8_Inv ==
    NoRelease =>
        /\ nCreated <= 2
        /\ notified = {}
        /\ wakeups = 0
        /\ Settled =>
              /\ nCreated = 2
              /\ Cardinality({t \in Trio : held[t] # NoConn}) = 2
              /\ Cardinality({held[t] : t \in Trio} \ {NoConn}) = 2
              /\ Cardinality({t \in Trio : pc[t] = "acq_wait"}) = 1

\* C8: the invariant above at every state, and the suspended caller
\* returns once a release has occurred.
C8_ThirdWaits ==
    /\ []C8_Inv
    /\ \A t \in Trio :
          (pc[t] = "acq_wait" /\ ~NoRelease) ~> (held[t] # NoConn)

\* two callers hold the two connections and the third is suspended
C8_Witness ==
    /\ NoRelease
    /\ Settled
    /\ nCreated = 2
    /\ \E t \in Trio : pc[t] = "acq_wait"

\* C9: release(c) with c outside the leased set raises (the assertion
\* fails), leaves free, leased, pending and the pool's db as they were and
\* schedules no wakeup.
C9_MisuseRaises ==
    [][\A t \in Tasks, c \in Conns :
          (ReleaseStale(t, c) /\ c \notin used) =>
              /\ report' = "AssertionError"
              /\ UNCHANGED <<pool, used, acquiring, db, wakeups, lockQ,
                             lockOwner, notified>>]_vars

\* a release of a connection that is free has just raised
C9_Witness ==
    /\ report = "AssertionError"
    /\ pool # <<>>
    /\ used # {}

\* C10: a leased, open connection that is mid-transaction when released is
\* closed by that release; a closed connection stays closed, is never in
\* the free list and is never returned by acquire.
C10_TxReleaseCloses ==
    /\ [](\A c \in closed : c \notin Range(pool))
    /\ [][\A t \in Tasks, c \in Conns :
            /\ (ReleaseCall(t) /\ held[t] = c /\ c \in intx /\ c \notin closed)
                  => (c \in closed' /\ c \notin Range(pool'))
            /\ c \in closed => c \in closed'
            /\ AcquireReturns(t, c) => c \notin closed']_vars

\* a release has just closed a connection that was mid-transaction
C10_Witness ==
    /\ report = "warning"
    /\ closed # {}

\* the callers suspended in a creation of _fill_free
Creating == {t \in Tasks : pc[t] \in {"acq_min", "acq_top"}}

\* C11: when the factory fails during the refill of an acquire or of
\* create_pool, the error reaches that caller, the pending counter is back
\* at the value it had before the slot was reserved (every reservation
\* starts from 0, and the counter always equals the number of creations in
\* flight), the caller does not hold the lock and is not queued for it, and
\* the leased set and the free list are as they were; and after a failed
\* acquire a later acquire gets a connection once the factory works.
C11_FailureRollsBack ==
    /\ [](acquiring = Cardinality(Creating)
                        + (IF ctor = "creating" THEN 1 ELSE 0))
    /\ [][/\ acquiring' > acquiring => acquiring = 0
          /\ \A t \in Tasks : AcquireCreateFail(t) =>
                /\ report' = "CreationError"
                /\ acquiring' = 0
                /\ lockOwner' # t
                /\ t \notin Range(lockQ')
                /\ held'[t] = NoConn
                /\ UNCHANGED <<used, pool>>
          /\ CtorCreateFail =>
                /\ ctor' = "failed"
                /\ acquiring' = 0
                /\ UNCHANGED <<used, pool, lockOwner, lockQ>>]_vars
    /\ (report = "CreationError") ~> (\E t \in Pair : held[t] # NoConn)

\* an acquire has just failed while nobody holds a lease and the other
\* caller is queued for the lock the failed call gave up
C11_Witness ==
    /\ report = "CreationError"
    /\ acquiring = 0
    /\ used = {}
    /\ lockOwner \in Pair
    /\ pc[lockOwner] = "acq_lock"

\* C12: when the body of a scoped lease ends, normally or by an exception,
\* release is called once with the wrapped connection: afterwards that
\* connection is not in the leased set, a release that passed its
\* assertion has taken exactly that connection out and scheduled exactly
\* one wakeup, the handle references neither the pool nor the connection
\* (also when release raised), and a handle that has left its body never
\* releases again.
C12_ScopedLeaseReleasesOnce ==
    /\ [](\A t \in Tasks :
            cm[t].state \in {"exited", "exited_err"} =>
                (~cm[t].pool /\ cm[t].conn = NoConn))
    /\ [][\A t \in Tasks, exc \in BOOLEAN :
            /\ ScopeExit(t, exc) =>
                  /\ cm[t].conn \notin used'
                  /\ ~cm'[t].pool
                  /\ cm'[t].conn = NoConn
                  /\ cm[t].conn \in used =>
                        /\ used' = used \ {cm[t].conn}
                        /\ wakeups' = wakeups + 1
                  /\ cm[t].conn \notin used =>
                        /\ report' = "AssertionError"
                        /\ UNCHANGED <<used, pool, wakeups>>
            /\ cm[t].state \in {"exited", "exited_err"} =>
                  ~ENABLED ScopeExit(t, exc)]_vars

\* a body that released its connection itself has been left: the release
\* of the exit raised and the handle is cleared all the same
C12_Witness ==
    \E t \in Tasks :
        /\ cm[t].state = "exited_err"
        /\ report = "AssertionError"
        /\ ~cm[t].pool
        /\ cm[t].conn = NoConn

\* C13: with maxsize 0, minsize m > 0 and a factory that does not fail,
\* create_pool returns after creating exactly m connections and the pool
\* then has size m: no more than m connections are ever created, the fill
\* is over once m have been created, and the pool it returns has size m.
C13_ZeroMaxFillTerminates ==
    (maxsize = 0 /\ minsize > 0) =>
        /\ nCreated <= minsize
        /\ ctor = "creating" => nCreated < minsize
        /\ ctor = "done" =>
              /\ nCreated = minsize
              /\ size(pool, used, acquiring) = minsize

\* C14: release of a leased connection that is open and outside a
\* transaction appends it to the free list exactly when conn.db equals the
\* pool's db and the free list holds fewer than maxsize connections;
\* otherwise the connection is closed and is not in the free list; and no
\* release of a leased connection raises, however unfit the connection is.
C14_ReleaseRecyclesOrCloses ==
    [][\A t \in Tasks :
          (ReleaseCall(t) /\ held[t] \in used) =>
              LET c == held[t] IN
              /\ report' # "AssertionError"
              /\ c \notin used'
              /\ (c \notin closed /\ c \notin intx) =>
                    IF cdb[c] = db /\ freesize(pool) < maxsize
                    THEN /\ pool' = Append(pool, c)
                         /\ c \notin closed'
                    ELSE /\ pool' = pool
                         /\ c \in closed'
                         /\ c \notin Range(pool')]_vars

\* after a select to db 1, two releases of leased, open connections have
\* just run: one appended its connection, the other closed it
C14_Witness ==
    /\ wakeups = 2
    /\ db = 1
    /\ used = {}
    /\ pool # <<>>
    /\ cdb[Head(pool)] = 1
    /\ Cardinality(closed) = 1
    /\ nCreated = 2
    /\ report = "none"

\* a step of the coroutine that holds the lock
OwnerStep(u) ==
    \/ AcquireLocked(u)
    \/ AcquireCreated(u)
    \/ AcquireCreateFail(u)
    \/ SelectLocked(u)
    \/ SelectConn(u)
    \/ ClearLocked(u)
    \/ ClearDone(u)

\* C15: the free list, the leased set and the pending counter change only
\* in steps of the task that holds the lock; so no step changes one of them
\* while another task holds the lock in the middle of its with block.
C15_MutationsUnderGuard ==
    [][\A u \in Tasks :
          (lockOwner = u /\ poolVars' # poolVars) => OwnerStep(u)]_vars

\* C16: when a release that passed its assertion returns, the notify has
\* been issued: the first waiter that was not notified yet is notified in
\* that very step, and no _wakeup task is left to run later, so that no
\* other operation sees the pool between the bookkeeping and the notify.
C16_NotifyBeforeReturn ==
    [][\A t \in Tasks :
          (ReleaseCall(t) /\ held[t] \in used) =>
              /\ notified' = Notify
              /\ Outstanding' = Outstanding]_vars

\* C17: whatever minsize and maxsize are, every connection the factory has
\* produced is in the free list, in the leased set or closed.
C17_NoConnectionLost ==
    \A c \in 1..nCreated : c \in Range(pool) \cup used \cup closed

\* a step of acquire run by task t
AcquireStep(t) ==
    \/ AcquireCall(t)
    \/ AcquireLocked(t)
    \/ AcquireCreated(t)
    \/ CondWake(t)

\* C18: with connections closed only by the pool or by the holder of their
\* lease, the two assertions of acquire never fail under any interleaving
\* of acquire, release, select and clear: every connection of the free
\* list is open and outside the leased set, no step of acquire raises
\* AssertionError, and a step that pops the front of the free list leases
\* that connection to its caller.
C18_AcquireAssertionsHold ==
    /\ [](\A i \in 1..Len(pool) : pool[i] \notin closed /\ pool[i] \notin used)
    /\ [][\A t \in Tasks :
            AcquireStep(t) =>
                /\ report' # "AssertionError"
                /\ (pool # <<>> /\ pc'[t] = "idle" /\ report' = "none") =>
                      /\ held'[t] = Head(pool)
                      /\ held'[t] \in used'
                      /\ held'[t] \notin closed']_vars

\* acquire has popped a connection that went through the free list twice:
\* released once, taken again while the _wakeup task of that release is
\* still to run, on a pool a select has moved to db 1
C18_Witness ==
    /\ nCreated = 1
    /\ used = {1}
    /\ \E t \in Tasks : held[t] = 1
    /\ wakeups > 0
    /\ db = 1
    /\ cdb[1] = 1
    /\ closed = {}

\* a task is suspended in self._cond.wait() with nothing that would wake
\* it: nobody has been notified, no connection is leased, no _wakeup task
\* exists and no call is in progress
Stranded ==
    /\ \E t \in Tasks : pc[t] = "acq_wait"
    /\ notified = {}
    /\ used = {}
    /\ Outstanding = 0
    /\ \A u \in Tasks : pc[u] \in {"idle", "done", "acq_wait"}

\* C19: with a factory that never fails, 1 <= maxsize and minsize <=
\* maxsize, no wakeup is lost: the pool is never in a state where a task
\* is suspended on the condition while no connection is leased, no wakeup
\* is pending and no other operation is running.
C19_NoLostWakeup ==
    (1 <= maxsize /\ minsize <= maxsize) => ~Stranded

\* two tasks are suspended on the condition and nothing is leased any
\* more: the last lease came back unfit and was closed, and the _wakeup
\* task of that release is still to run
C19_Witness ==
    /\ Cardinality({t \in Tasks : pc[t] = "acq_wait"}) = 2
    /\ notified = {}
    /\ used = {}
    /\ pool = <<>>
    /\ Outstanding = 1

\* C20: a failed acquire does not strand the other waiters: once an
\* acquire has raised a creation error, every task that is suspended on
\* the condition at that point leaves the wait in the end (to return a
\* connection or to raise), with no new call of acquire or release needed.
C20_FailureWakesOthers ==
    \A t \in Tasks :
        (report = "CreationError" /\ pc[t] = "acq_wait")
            ~> (pc[t] # "acq_wait")

====
